---- MODULE Spec2Model ----
(***************************************************************************)
(* Lead priority scoring (LeadScoringSystem) and rule-based alerting       *)
(* (AlertSystem) of the sales-lead analyzer.                               *)
(*                                                                         *)
(* Strings of the source are written in ASCII:                             *)
(*   channels  "douyin" = 抖音短视频平台, "live" = 直播平台,                   *)
(*             "chuangke" = 创客网络销售, "other_channel" = any other text    *)
(*   grades    "A".."E", "other" = 其他, "nan" = str() of a missing grade    *)
(*   levels    "urgent" = 紧急跟进, "priority" = 优先跟进,                     *)
(*             "routine" = 常规跟进, "low" = 低优先级                          *)
(*   columns   source = 学员来源, grade = 客户分级, followup_count = 回访次数, *)
(*             first_consult = 首咨时间, last_followup = 最后回访时间,         *)
(*             enroll_time = 报名时间, name = 学员姓名, id = 学员id,           *)
(*             sales = 所属销售                                              *)
(*                                                                         *)
(* A cell of a row is a tagged value [kind, v]:                            *)
(*   "NaN"   a missing cell (float nan)       "None"  Python None          *)
(*   "Empty" the empty string ''              "Str"   a string that is     *)
(*   "Date"  a parseable timestamp, v ticks           neither a date nor a *)
(*   "Num"   a number v                               number               *)
(* Time is counted in ticks, TicksPerDay ticks to the day, so that the     *)
(* whole-day floor of timedelta.days is computed and not assumed.          *)
(***************************************************************************)
EXTENDS Integers, Sequences, FiniteSets, TLC

VARIABLES
    now,            \* the reading of datetime.now()
    row,            \* the record handed to calculate_lead_score
    score,          \* the score computed or supplied, NoScore before
    level,          \* the level computed from score, "none" before
    decay,          \* the value calculate_time_decay returned, NoScore before
    pc,             \* position of the scoring caller
    df,             \* the lead table handed to the alert engine
    red_alerts,     \* AlertSystem.red_alerts
    orange_alerts,  \* AlertSystem.orange_alerts
    yellow_alerts,  \* AlertSystem.yellow_alerts
    call,           \* the last alert-engine call: its name, whether it raised, the
                    \* clock readings it took and the alerts held when it began
    result,         \* the dict the last generate_all_alerts call returned to its
                    \* caller, with what it showed then; NoResult before
    earlier,        \* the dict of the call before that, as the caller still holds it
    csv,            \* the CSV file handed to analyze_leads or to load_data
    points,         \* the three point tables of LeadScoringSystem
    data,           \* SalesAnalyzer.data
    loaded,         \* what load_data returned, "none" before
    view            \* what main rendered, "none" before

vars == <<now, row, score, level, decay, pc, df, red_alerts, orange_alerts, yellow_alerts, call,
          result, earlier, csv, points, data, loaded, view>>

scoreVars == <<row, score, level, decay, pc>>
alertVars == <<df, red_alerts, orange_alerts, yellow_alerts, call>>
loadVars == <<csv, points, data, loaded, view>>
heldVars == <<result, earlier>>

-----------------------------------------------------------------------------
(* Bounds of the model *)

TicksPerDay == 2
MaxNow == 18
MaxStamp == 2
MaxCount == 11
MaxProbe == 101
MaxAhead == 40

-----------------------------------------------------------------------------
(* Cells *)

Cell(k, x) == [kind |-> k, v |-> x]
NaN == Cell("NaN", 0)
None == Cell("None", 0)
Empty == Cell("Empty", 0)
BadStr == Cell("Str", 0)
Date(t) == Cell("Date", t)
Num(n) == Cell("Num", n)

\* pd.isna(x): nan and None are missing, strings and numbers are not
isna(c) == c.kind \in {"NaN", "None"}

\* Python truth value: nan is truthy, None, '' and 0 are falsy
Truthy(c) ==
    CASE c.kind = "NaN" -> TRUE
      [] c.kind = "None" -> FALSE
      [] c.kind = "Empty" -> FALSE
      [] c.kind = "Num" -> c.v # 0
      [] OTHER -> TRUE

\* pd.to_datetime(x): a date, NaT for '' / nan / None, an exception otherwise
to_datetime(c) ==
    CASE c.kind = "Date" -> [raised |-> FALSE, nat |-> FALSE, t |-> c.v]
      [] c.kind \in {"Empty", "NaN", "None"} -> [raised |-> FALSE, nat |-> TRUE, t |-> 0]
      [] OTHER -> [raised |-> TRUE, nat |-> FALSE, t |-> 0]

Min(a, b) == IF a <= b THEN a ELSE b

-----------------------------------------------------------------------------
(* LeadScoringSystem *)

DouyinPoints == 35
LivePoints == 30
ChuangkePoints == 25
DefaultChannelPoints == 20
DefaultGradePoints == 5
DefaultFollowupPoints == 0
FollowupCap == 10
ScoreCap == 100

\* point tables whose largest entries add up to more than 100
PointTablesGenerous ==
    [channel_scores |-> [c \in {"douyin", "live", "chuangke"} |->
                            IF c = "douyin" THEN 45 ELSE 30],
     grade_scores |-> [g \in {"A", "B", "C", "D", "E", "other"} |->
                          IF g = "A" THEN 30 ELSE 10],
     followup_scores |-> [n \in 0..10 |-> IF n = 0 THEN 0 ELSE 20]]

\* the three dictionaries LeadScoringSystem.__init__ builds
PointTables ==
    [channel_scores |-> [c \in {"douyin", "live", "chuangke"} |->
                            CASE c = "douyin" -> DouyinPoints
                              [] c = "live" -> LivePoints
                              [] OTHER -> ChuangkePoints],
     grade_scores |-> [g \in {"A", "B", "C", "D", "E", "other"} |->
                          CASE g = "A" -> 30
                            [] g = "B" -> 25
                            [] g = "C" -> 20
                            [] g = "D" -> 15
                            [] g = "E" -> 10
                            [] OTHER -> 5],
     followup_scores |-> [n \in 0..10 |->
                             CASE n = 0 -> 0
                               [] n \in {1, 2} -> 15
                               [] n \in {3, 4, 5} -> 20
                               [] n \in {6, 7} -> 15
                               [] n \in {8, 9} -> 10
                               [] OTHER -> 5]]

\* dict.get(key, default)
get(dict, key, default) == IF key \in DOMAIN dict THEN dict[key] ELSE default

\* self.channel_scores.get(channel, 20)
channel_scores(channel) == get(points.channel_scores, channel, DefaultChannelPoints)

\* self.grade_scores.get(grade, 5)
grade_scores(grade) == get(points.grade_scores, grade, DefaultGradePoints)

\* a follow-up table that stays at its peak through 6-7 visits
followup_scores_flat_peak(followup) ==
    CASE followup = 0 -> 0
      [] followup \in {1, 2} -> 15
      [] followup \in {3, 4, 5, 6, 7} -> 20
      [] followup \in {8, 9} -> 10
      [] followup = 10 -> 5
      [] OTHER -> 0

\* self.followup_scores.get(followup, 0)
followup_scores(followup) == get(points.followup_scores, followup, DefaultFollowupPoints)

\* (datetime.now() - consult_date).days: whole days, rounded down
days_between(t_now, t) == (t_now - t) \div TicksPerDay

\* a consultation date after now counted as today's
calculate_time_decay_clipped(first_consult_date, t_now) ==
    IF isna(first_consult_date) THEN 0
    ELSE LET consult_date == to_datetime(first_consult_date) IN
         IF consult_date.raised \/ consult_date.nat THEN 0
         ELSE LET days_diff == days_between(t_now, consult_date.t) IN
              IF days_diff <= 0 THEN 10
              ELSE IF days_diff <= 3 THEN 8
              ELSE IF days_diff <= 7 THEN 5
              ELSE 0

\* the 3-day boundary tested with < in place of <=
calculate_time_decay_strict(first_consult_date, t_now) ==
    IF isna(first_consult_date) THEN 0
    ELSE LET consult_date == to_datetime(first_consult_date) IN
         IF consult_date.raised \/ consult_date.nat THEN 0
         ELSE LET days_diff == days_between(t_now, consult_date.t) IN
              IF days_diff = 0 THEN 10
              ELSE IF days_diff < 3 THEN 8
              ELSE IF days_diff <= 7 THEN 5
              ELSE 0

calculate_time_decay(first_consult_date, t_now) ==
    IF isna(first_consult_date) THEN 0
    ELSE LET consult_date == to_datetime(first_consult_date) IN
         IF consult_date.raised THEN 0          \* except: return 0
         ELSE IF consult_date.nat THEN 0        \* NaT.days is nan: every test fails
         ELSE LET days_diff == days_between(t_now, consult_date.t) IN
              IF days_diff = 0 THEN 10
              ELSE IF days_diff <= 3 THEN 8
              ELSE IF days_diff <= 7 THEN 5
              ELSE 0

\* The outcome of a call: a value, or an exception leaving the call
Returned(x) == [raised |-> FALSE, value |-> x]
Raised == [raised |-> TRUE, value |-> 0]

\* self.followup_scores[followup] in place of .get(followup, 0): a KeyError
\* for a count that is not a key of the table
calculate_lead_score_keyerror(r, t_now) ==
    LET s2 == channel_scores(r.source) + grade_scores(r.grade)
        followup == IF isna(r.followup_count) THEN Num(0) ELSE r.followup_count
    IN  IF followup.kind # "Num" THEN Raised
        ELSE IF Min(followup.v, FollowupCap) \notin 0..FollowupCap THEN Raised
        ELSE Returned(Min(s2 + followup_scores(Min(followup.v, FollowupCap))
                             + calculate_time_decay(r.first_consult, t_now), ScoreCap))

\* int(followup) looked up without min(.., 10)
calculate_lead_score_noclamp(r, t_now) ==
    LET s2 == channel_scores(r.source) + grade_scores(r.grade)
        followup == IF isna(r.followup_count) THEN Num(0) ELSE r.followup_count
    IN  IF followup.kind # "Num" THEN Raised
        ELSE Returned(Min(s2 + followup_scores(followup.v)
                             + calculate_time_decay(r.first_consult, t_now), ScoreCap))

calculate_lead_score(r, t_now) ==
    LET s1 == channel_scores(r.source)
        s2 == s1 + grade_scores(r.grade)
        followup == IF isna(r.followup_count) THEN Num(0) ELSE r.followup_count
    IN  IF followup.kind # "Num" THEN Raised    \* int('abc'): ValueError
        ELSE LET s3 == s2 + followup_scores(Min(followup.v, FollowupCap))
                 s4 == s3 + calculate_time_decay(r.first_consult, t_now)
             IN  Returned(Min(s4, ScoreCap))

\* the 90 boundary tested with > in place of >=
get_priority_level_strict(s) ==
    IF s > 90 THEN "urgent"
    ELSE IF s >= 70 THEN "priority"
    ELSE IF s >= 50 THEN "routine"
    ELSE "low"

get_priority_level(s) ==
    IF s >= 90 THEN "urgent"
    ELSE IF s >= 70 THEN "priority"
    ELSE IF s >= 50 THEN "routine"
    ELSE "low"

-----------------------------------------------------------------------------
(* Records *)

Channels == {"douyin", "live", "chuangke", "other_channel"}
Grades == {"A", "B", "C", "D", "E", "other", "nan"}
Counts == {NaN, BadStr} \cup {Num(n) : n \in -1..MaxCount}
Stamps == {Date(t) : t \in 0..MaxStamp}
\* consultation dates after every clock reading: one tick and MaxAhead days
FutureStamps == {Date(MaxNow + 1), Date(MaxNow + MaxAhead * TicksPerDay)}
ConsultCells == {NaN, None, Empty, BadStr} \cup Stamps \cup FutureStamps

Row(i, n, s, g, c, fc, lf, en) ==
    [id |-> i, name |-> n, source |-> s, grade |-> g, followup_count |-> c,
     first_consult |-> fc, last_followup |-> lf, enroll_time |-> en,
     sales |-> "sales_1"]

\* the records the scoring function is applied to
ScoreRows ==
    {Row(1, "named", s, g, c, fc, NaN, NaN) :
        s \in Channels, g \in Grades, c \in Counts, fc \in ConsultCells}

NoScore == 0 - 1

\* no file, no table held, nothing loaded or rendered
NoFile == [readable |-> FALSE, columns |-> {}, rows |-> <<>>]
NoData == [held |-> FALSE, columns |-> {}, rows |-> <<>>]

\* the callers of the alert engine: "alerts" drops what generate_all_alerts
\* returns, "holds" keeps the returned dicts
AlertCallers == {"alerts", "holds"}

\* no dict returned by generate_all_alerts yet
NoResult == [kind |-> "none"]

\* no call of the alert engine yet
NoCall ==
    [op |-> "none", raised |-> FALSE, t_cold |-> 0, t_zombie |-> 0, held |-> 0,
     again |-> FALSE]

-----------------------------------------------------------------------------
(* The scoring caller: df.apply(calculate_lead_score), then get_priority_level *)

\* Either a record is about to be scored at some clock reading, or a caller
\* is about to ask for the level of a score of its own.
InitScore ==
    /\ \/ /\ now \in 0..MaxNow
          /\ row \in ScoreRows
          /\ pc = "start"
       \/ /\ now = 0
          /\ row = Row(1, "named", "douyin", "A", NaN, NaN, NaN, NaN)
          /\ pc = "probe"
    /\ score = NoScore
    /\ level = "none"
    /\ decay = NoScore
    /\ df = <<>>
    /\ red_alerts = <<>>
    /\ orange_alerts = <<>>
    /\ yellow_alerts = <<>>
    /\ call = NoCall
    /\ result = NoResult
    /\ earlier = NoResult
    /\ csv = NoFile
    /\ points = PointTables
    /\ data = NoData
    /\ loaded = "none"
    /\ view = "none"

ScoreRow ==
    /\ pc = "start"
    /\ LET out == calculate_lead_score(row, now) IN
          /\ score' = IF out.raised THEN NoScore ELSE out.value
          /\ pc' = IF out.raised THEN "raised" ELSE "scored"
    /\ UNCHANGED <<now, row, level, decay, alertVars, loadVars, heldVars>>

\* calculate_time_decay called on the record's consultation date alone
DecayOf ==
    /\ pc = "start"
    /\ decay' = calculate_time_decay(row.first_consult, now)
    /\ pc' = "decayed"
    /\ UNCHANGED <<now, row, score, level, alertVars, loadVars, heldVars>>

\* get_priority_level called with a score of the caller's own
GiveScore ==
    /\ pc = "probe"
    /\ \E s \in (0 - 1)..MaxProbe :
          score' = s
    /\ pc' = "given"
    /\ UNCHANGED <<now, row, level, decay, alertVars, loadVars, heldVars>>

LevelOf ==
    /\ pc \in {"scored", "given"}
    /\ level' = get_priority_level(score)
    /\ pc' = IF pc = "scored" THEN "levelled" ELSE "levelled_given"
    /\ UNCHANGED <<now, row, score, decay, alertVars, loadVars, heldVars>>

NextScore == ScoreRow \/ DecayOf \/ GiveScore \/ LevelOf

SpecScore == InitScore /\ [][NextScore]_vars

-----------------------------------------------------------------------------
(* AlertSystem: the five rules *)

ColdDays == 3
ZombieDays == 7
RatioThreshold == 30

\* names of 学员姓名: "unnamed" = 未命名, "named" = any other name, "missing" = nan
\* alert types: "high_value_no_followup" = 高价值未回访, "cold_lead" = 热线索冷却,
\*   "naming" = 命名异常, "grading" = 分级异常, "zombie" = 僵尸线索
\* alert levels: "red" = 红色预警, "orange" = 橙色预警, "yellow" = 黄色预警

\* the high-quality set of the reporting code, one grade short
high_value_grades_ab == {"A", "B"}

high_value_grades == {"A", "B", "C"}

high_value_alert(r) ==
    [type |-> "high_value_no_followup", level |-> "red", id |-> r.id,
     name |-> r.name, grade |-> r.grade, first_consult |-> r.first_consult,
     sales |-> r.sales, suggestion |-> "arrange_first_followup"]

cold_alert(r) ==
    [type |-> "cold_lead", level |-> "red", id |-> r.id, name |-> r.name,
     followup_count |-> r.followup_count, last_followup |-> r.last_followup,
     sales |-> r.sales, suggestion |-> "reactivate_now"]

\* the zombie alert labelled with the red level
zombie_alert_red(r, last_update) ==
    [type |-> "zombie", level |-> "red", id |-> r.id, name |-> r.name,
     last_update |-> last_update, sales |-> r.sales,
     suggestion |-> "drop_or_reactivate"]

zombie_alert(r, last_update) ==
    [type |-> "zombie", level |-> "yellow", id |-> r.id, name |-> r.name,
     last_update |-> last_update, sales |-> r.sales,
     suggestion |-> "drop_or_reactivate"]

\* the outcome of a rule's loop: the alerts appended, and whether an exception left it
Loop(a, x) == [alerts |-> a, raised |-> x]

\* the rule putting each new alert in front of the bucket
RECURSIVE high_value_loop_insert(_, _)
high_value_loop_insert(rows, acc) ==
    IF rows = <<>> THEN Loop(acc, FALSE)
    ELSE LET r == Head(rows)
             c == r.followup_count
             hit == /\ r.grade \in {"A", "B", "C"}
                    /\ (isna(c) \/ (c.kind = "Num" /\ c.v = 0))
         IN  high_value_loop_insert(Tail(rows),
                                    IF hit THEN <<high_value_alert(r)>> \o acc ELSE acc)

\* the rule without its test of the follow-up count
RECURSIVE high_value_loop_any_count(_, _)
high_value_loop_any_count(rows, acc) ==
    IF rows = <<>> THEN Loop(acc, FALSE)
    ELSE LET r == Head(rows)
             hit == r.grade \in {"A", "B", "C"}
         IN  high_value_loop_any_count(Tail(rows),
                                       IF hit THEN Append(acc, high_value_alert(r)) ELSE acc)

\* the rule for records that have not enrolled only
RECURSIVE high_value_loop_open_only(_, _)
high_value_loop_open_only(rows, acc) ==
    IF rows = <<>> THEN Loop(acc, FALSE)
    ELSE LET r == Head(rows)
             c == r.followup_count
             hit == /\ r.grade \in {"A", "B", "C"}
                    /\ (isna(c) \/ (c.kind = "Num" /\ c.v = 0))
                    /\ isna(r.enroll_time)
         IN  high_value_loop_open_only(Tail(rows),
                                       IF hit THEN Append(acc, high_value_alert(r)) ELSE acc)

\* for _, row in df.iterrows(): the test of check_high_value_no_followup
RECURSIVE high_value_loop(_, _)
high_value_loop(rows, acc) ==
    IF rows = <<>> THEN Loop(acc, FALSE)
    ELSE LET r == Head(rows)
             c == r.followup_count
             hit == /\ r.grade \in high_value_grades
                    /\ (isna(c) \/ (c.kind = "Num" /\ c.v = 0))
         IN  high_value_loop(Tail(rows), IF hit THEN Append(acc, high_value_alert(r)) ELSE acc)

\* the cutoff tested with <= in place of <
RECURSIVE cold_loop_inclusive(_, _, _)
cold_loop_inclusive(rows, cutoff_date, acc) ==
    IF rows = <<>> THEN Loop(acc, FALSE)
    ELSE LET r == Head(rows)
             c == r.followup_count
         IN  IF isna(c) THEN cold_loop_inclusive(Tail(rows), cutoff_date, acc)
             ELSE IF c.kind # "Num" THEN Loop(acc, TRUE)
             ELSE IF ~(c.v > 0) \/ isna(r.last_followup)
                  THEN cold_loop_inclusive(Tail(rows), cutoff_date, acc)
             ELSE LET last_date == to_datetime(r.last_followup)
                      hit == /\ ~last_date.raised
                             /\ ~last_date.nat
                             /\ last_date.t <= cutoff_date
                  IN  cold_loop_inclusive(Tail(rows), cutoff_date,
                                          IF hit THEN Append(acc, cold_alert(r)) ELSE acc)

\* the rule for last follow-ups between 3 and 7 days old only
RECURSIVE cold_loop_window(_, _, _)
cold_loop_window(rows, cutoff_date, acc) ==
    IF rows = <<>> THEN Loop(acc, FALSE)
    ELSE LET r == Head(rows)
             c == r.followup_count
         IN  IF isna(c) THEN cold_loop_window(Tail(rows), cutoff_date, acc)
             ELSE IF c.kind # "Num" THEN Loop(acc, TRUE)
             ELSE IF ~(c.v > 0) \/ isna(r.last_followup)
                  THEN cold_loop_window(Tail(rows), cutoff_date, acc)
             ELSE LET last_date == to_datetime(r.last_followup)
                      hit == /\ ~last_date.raised
                             /\ ~last_date.nat
                             /\ last_date.t < cutoff_date
                             /\ last_date.t >= cutoff_date - 4 * TicksPerDay
                  IN  cold_loop_window(Tail(rows), cutoff_date,
                                       IF hit THEN Append(acc, cold_alert(r)) ELSE acc)

\* the try around the whole loop: the first unparseable date ends the rule
RECURSIVE cold_loop_try_outside(_, _, _)
cold_loop_try_outside(rows, cutoff_date, acc) ==
    IF rows = <<>> THEN Loop(acc, FALSE)
    ELSE LET r == Head(rows)
             c == r.followup_count
         IN  IF isna(c) THEN cold_loop_try_outside(Tail(rows), cutoff_date, acc)
             ELSE IF c.kind # "Num" THEN Loop(acc, TRUE)
             ELSE IF ~(c.v > 0) \/ isna(r.last_followup)
                  THEN cold_loop_try_outside(Tail(rows), cutoff_date, acc)
             ELSE LET last_date == to_datetime(r.last_followup)
                      hit == ~last_date.nat /\ last_date.t < cutoff_date
                  IN  IF last_date.raised THEN Loop(acc, FALSE)
                      ELSE cold_loop_try_outside(Tail(rows), cutoff_date,
                                                 IF hit THEN Append(acc, cold_alert(r)) ELSE acc)

\* check_cold_leads: followup_count > 0 is outside the try and raises TypeError
\* for a string; pd.to_datetime and the comparison are inside it
RECURSIVE cold_loop(_, _, _)
cold_loop(rows, cutoff_date, acc) ==
    IF rows = <<>> THEN Loop(acc, FALSE)
    ELSE LET r == Head(rows)
             last_followup == r.last_followup
             followup_count == r.followup_count
         IN  IF isna(followup_count) THEN cold_loop(Tail(rows), cutoff_date, acc)
             ELSE IF followup_count.kind # "Num" THEN Loop(acc, TRUE)
             ELSE IF ~(followup_count.v > 0) \/ isna(last_followup)
                  THEN cold_loop(Tail(rows), cutoff_date, acc)
             ELSE LET last_date == to_datetime(last_followup)
                      hit == /\ ~last_date.raised
                             /\ ~last_date.nat
                             /\ last_date.t < cutoff_date
                  IN  cold_loop(Tail(rows), cutoff_date,
                                IF hit THEN Append(acc, cold_alert(r)) ELSE acc)

\* the rule without its test of the enrollment time
RECURSIVE zombie_loop_enrolled(_, _, _)
zombie_loop_enrolled(rows, cutoff_date, acc) ==
    IF rows = <<>> THEN Loop(acc, FALSE)
    ELSE LET r == Head(rows)
             last_update == IF Truthy(r.last_followup) THEN r.last_followup
                            ELSE r.first_consult
         IN  IF isna(last_update) THEN zombie_loop_enrolled(Tail(rows), cutoff_date, acc)
             ELSE LET last_date == to_datetime(last_update)
                      hit == /\ ~last_date.raised
                             /\ ~last_date.nat
                             /\ last_date.t < cutoff_date
                  IN  zombie_loop_enrolled(Tail(rows), cutoff_date,
                                           IF hit THEN Append(acc, zombie_alert(r, last_update))
                                           ELSE acc)

\* check_zombie_leads: last_update = last follow-up `or` first consultation
RECURSIVE zombie_loop(_, _, _)
zombie_loop(rows, cutoff_date, acc) ==
    IF rows = <<>> THEN Loop(acc, FALSE)
    ELSE LET r == Head(rows)
             last_update == IF Truthy(r.last_followup) THEN r.last_followup
                            ELSE r.first_consult
         IN  IF isna(last_update) THEN zombie_loop(Tail(rows), cutoff_date, acc)
             ELSE LET last_date == to_datetime(last_update)
                      hit == /\ ~last_date.raised
                             /\ ~last_date.nat
                             /\ last_date.t < cutoff_date
                             /\ isna(r.enroll_time)
                  IN  zombie_loop(Tail(rows), cutoff_date,
                                  IF hit THEN Append(acc, zombie_alert(r, last_update))
                                  ELSE acc)

\* len(df[df[col] == value])
RECURSIVE CountRows(_, _, _)
CountRows(rows, col, value) ==
    IF rows = <<>> THEN 0
    ELSE (IF Head(rows)[col] = value THEN 1 ELSE 0) + CountRows(Tail(rows), col, value)

\* f"{ratio:.1f}": the ratio in tenths of a percent, rounded to nearest, a tie to even
\* (the ties of the tables modelled are exact in binary floating point)
format_ratio(count, total) ==
    LET q == (1000 * count) \div total
        rem == (1000 * count) % total
    IN  IF 2 * rem > total THEN q + 1
        ELSE IF 2 * rem = total /\ q % 2 = 1 THEN q + 1
        ELSE q

\* the threshold tested with >= in place of >
over_threshold_inclusive(count, total) == count * 100 >= RatioThreshold * total

\* (count / total) * 100 > 30
over_threshold(count, total) == count * 100 > RatioThreshold * total

unnamed_ratio_alerts(rows) ==
    LET total_leads == Len(rows)
        unnamed_count == CountRows(rows, "name", "unnamed")
    IN  IF total_leads > 0 /\ over_threshold(unnamed_count, total_leads)
        THEN <<[type |-> "naming", level |-> "yellow",
                ratio |-> format_ratio(unnamed_count, total_leads),
                impact |-> "hurts_followup", suggestion |-> "ask_real_name"]>>
        ELSE <<>>

grade_distribution_alerts(rows) ==
    LET total_leads == Len(rows)
        other_count == CountRows(rows, "grade", "other")
    IN  IF total_leads > 0 /\ over_threshold(other_count, total_leads)
        THEN <<[type |-> "grading", level |-> "orange",
                ratio |-> format_ratio(other_count, total_leads),
                suggestion |-> "review_grading"]>>
        ELSE <<>>

\* datetime.now() - timedelta(days=n)
cutoff(t_now, days) == t_now - days * TicksPerDay

-----------------------------------------------------------------------------
(* Lead tables *)

MaxRows == 2
MaxAlerts == 2
MaxDrift == 1

AbsentCells == {NaN, None, Empty}

\* records never followed up (the last follow-up is an empty cell, nan, or None)
\* that differ in grade, follow-up count and enrollment
GradeRows ==
    {Row(1, "named", "douyin", g, c, Date(0), lf, en) :
        g \in {"A", "B", "C", "D", "other"},
        c \in {NaN, None, Num(0), Num(2)},
        lf \in {NaN, None},
        en \in {NaN, Date(0)}}

\* records that differ in follow-up count and last follow-up
ColdRows ==
    {Row(2, "named", "live", "D", c, Date(0), lf, NaN) :
        c \in {NaN, Num(0), Num(2), BadStr},
        lf \in AbsentCells \cup {BadStr} \cup Stamps}

\* records that differ in last follow-up, first consultation and enrollment
ZombieRows ==
    {Row(3, "named", "chuangke", "E", NaN, fc, lf, en) :
        fc \in {NaN, Empty, BadStr, Date(0), Date(MaxStamp)},
        lf \in AbsentCells \cup {BadStr, Date(0)},
        en \in {NaN, None, Empty, BadStr, Date(0)}}

\* records that differ in name and grade
RatioRows ==
    {Row(4, n, "douyin", g, Num(1), Date(0), Date(0), NaN) :
        n \in {"unnamed", "named"}, g \in {"A", "other"}}

\* a record whose name cell is missing
MissingNameRows ==
    {Row(4, "missing", "douyin", g, Num(1), Date(0), Date(0), NaN) : g \in {"A", "other"}}

\* records that can trigger rules 1, 2 and 5, alone or together, each with an
\* id of its own
CoreRows ==
    {Row(x[1], "named", "douyin", x[2], x[3], Date(0), x[4], NaN) :
        x \in {<<51, "A", Num(0), None>>, <<52, "A", Num(2), Date(0)>>,
               <<53, "B", Num(0), None>>, <<54, "B", Num(2), Date(0)>>}}

\* records followed up long ago: one still open, one enrolled, one whose last
\* follow-up cannot be parsed
MixedRows ==
    {Row(6, "named", "live", "D", Num(2), Date(0), le[1], le[2]) :
        le \in {<<Date(0), NaN>>, <<Date(0), Date(0)>>, <<BadStr, NaN>>}}

SeqsUpTo(S, n) == UNION {[1..k -> S] : k \in 0..n}

Tables ==
    {<<r>> : r \in GradeRows \cup ColdRows \cup ZombieRows \cup MissingNameRows}
        \cup SeqsUpTo(CoreRows, MaxRows) \cup SeqsUpTo(RatioRows, MaxRows)
        \cup SeqsUpTo(MixedRows, MaxRows)

\* the clock readings: on each cutoff and one tick past it
ClockReadings ==
    {d * TicksPerDay + k : d \in {ColdDays, ZombieDays}, k \in {0, 1}}

-----------------------------------------------------------------------------
(* AlertSystem: the calls *)

\* held: the alerts in the buckets when the call began; again: the call is a
\* generate_all_alerts that follows a generate_all_alerts on the same table
Call(name, x, t1, t2) ==
    [op |-> name, raised |-> x, t_cold |-> t1, t_zombie |-> t2,
     held |-> Len(red_alerts) + Len(orange_alerts) + Len(yellow_alerts),
     again |-> (name = "generate_all_alerts" /\ call.op = "generate_all_alerts"
                /\ ~call.raised)]

InitAlerts ==
    /\ now \in ClockReadings
    /\ df \in Tables
    /\ red_alerts = <<>>
    /\ orange_alerts = <<>>
    /\ yellow_alerts = <<>>
    /\ call = NoCall
    /\ result = NoResult
    /\ earlier = NoResult
    /\ row = Row(1, "named", "douyin", "A", NaN, NaN, NaN, NaN)
    /\ score = NoScore
    /\ level = "none"
    /\ decay = NoScore
    /\ pc = "alerts"
    /\ csv = NoFile
    /\ points = PointTables
    /\ data = NoData
    /\ loaded = "none"
    /\ view = "none"

\* a rule called on its own keeps the buckets within the model's bound
Room(new) == Len(red_alerts) + Len(orange_alerts) + Len(yellow_alerts) + Len(new) <= MaxAlerts

check_high_value_no_followup ==
    /\ pc \in AlertCallers
    /\ LET out == high_value_loop(df, <<>>) IN
          /\ Room(out.alerts)
          /\ red_alerts' = red_alerts \o out.alerts
          /\ call' = Call("check_high_value_no_followup", out.raised, now, now)
    /\ UNCHANGED <<now, scoreVars, loadVars, heldVars, df, orange_alerts, yellow_alerts>>

check_cold_leads ==
    /\ pc \in AlertCallers
    /\ LET out == cold_loop(df, cutoff(now, ColdDays), <<>>) IN
          /\ Room(out.alerts)
          /\ red_alerts' = red_alerts \o out.alerts
          /\ call' = Call("check_cold_leads", out.raised, now, now)
    /\ UNCHANGED <<now, scoreVars, loadVars, heldVars, df, orange_alerts, yellow_alerts>>

check_unnamed_ratio ==
    /\ pc \in AlertCallers
    /\ LET new == unnamed_ratio_alerts(df) IN
          /\ Room(new)
          /\ yellow_alerts' = yellow_alerts \o new
          /\ call' = Call("check_unnamed_ratio", FALSE, now, now)
    /\ UNCHANGED <<now, scoreVars, loadVars, heldVars, df, red_alerts, orange_alerts>>

\* rule 4 appending to the yellow bucket
check_grade_distribution_yellow ==
    /\ pc \in AlertCallers
    /\ LET new == grade_distribution_alerts(df) IN
          /\ Room(new)
          /\ yellow_alerts' = yellow_alerts \o new
          /\ call' = Call("check_grade_distribution", FALSE, now, now)
    /\ UNCHANGED <<now, scoreVars, loadVars, heldVars, df, red_alerts, orange_alerts>>

check_grade_distribution ==
    /\ pc \in AlertCallers
    /\ LET new == grade_distribution_alerts(df) IN
          /\ Room(new)
          /\ orange_alerts' = orange_alerts \o new
          /\ call' = Call("check_grade_distribution", FALSE, now, now)
    /\ UNCHANGED <<now, scoreVars, loadVars, heldVars, df, red_alerts, yellow_alerts>>

check_zombie_leads ==
    /\ pc \in AlertCallers
    /\ LET out == zombie_loop(df, cutoff(now, ZombieDays), <<>>) IN
          /\ Room(out.alerts)
          /\ yellow_alerts' = yellow_alerts \o out.alerts
          /\ call' = Call("check_zombie_leads", out.raised, now, now)
    /\ UNCHANGED <<now, scoreVars, loadVars, heldVars, df, red_alerts, orange_alerts>>

\* the five rules with rule 2 called before rule 1 and rule 5 before rule 3
generate_from_reordered(r0, o0, y0, rows, t_cold, t_zombie) ==
    LET r2 == cold_loop(rows, cutoff(t_cold, ColdDays), r0)
        r1 == high_value_loop(rows, r2.alerts)
        y5 == zombie_loop(rows, cutoff(t_zombie, ZombieDays), y0)
        y3 == y5.alerts \o unnamed_ratio_alerts(rows)
        o4 == o0 \o grade_distribution_alerts(rows)
    IN  IF r2.raised
        THEN [red |-> r2.alerts, orange |-> o0, yellow |-> y0, raised |-> TRUE]
        ELSE [red |-> r1.alerts, orange |-> o4, yellow |-> y3, raised |-> FALSE]

\* the buckets generate_all_alerts leaves, the clock read at t_cold by
\* check_cold_leads and at t_zombie by check_zombie_leads, starting from the
\* buckets r0, o0, y0 that the three clear() calls leave
generate_from(r0, o0, y0, rows, t_cold, t_zombie) ==
    LET r1 == high_value_loop(rows, r0)
        r2 == cold_loop(rows, cutoff(t_cold, ColdDays), r1.alerts)
        y3 == y0 \o unnamed_ratio_alerts(rows)
        o4 == o0 \o grade_distribution_alerts(rows)
        y5 == zombie_loop(rows, cutoff(t_zombie, ZombieDays), y3)
    IN  IF r2.raised
        THEN [red |-> r2.alerts, orange |-> o0, yellow |-> y0, raised |-> TRUE]
        ELSE [red |-> r2.alerts, orange |-> o4, yellow |-> y5.alerts, raised |-> FALSE]

\* a value of the returned dict: the list object an attribute of the engine
\* names, or a list of its own with entries
Ref(name) == [kind |-> "ref", to |-> name]
Copy(list) == [kind |-> "list", v |-> list]

\* a dict whose values are new lists with the entries of the buckets
returned_copies(red, orange, yellow) ==
    [red |-> Copy(red), orange |-> Copy(orange), yellow |-> Copy(yellow)]

\* the dict literal of the return statement: its values are self.red_alerts,
\* self.orange_alerts and self.yellow_alerts, the list objects themselves
returned(red, orange, yellow) ==
    [red |-> Ref("red_alerts"), orange |-> Ref("orange_alerts"),
     yellow |-> Ref("yellow_alerts")]

\* the entries under the three keys
entries(red, orange, yellow) == [red |-> red, orange |-> orange, yellow |-> yellow]

\* what a caller reads in a value of the dict when the engine's list holds list
at(value, list) == IF value.kind = "ref" THEN list ELSE value.v

\* what a caller reads in a returned dict when the engine's lists hold these
shows(dict, red, orange, yellow) ==
    entries(at(dict.red, red), at(dict.orange, orange), at(dict.yellow, yellow))

\* the caller's two handles after a generate_all_alerts call that leaves out;
\* a caller that drops the returned dict holds nothing
hold(out) ==
    IF out.raised \/ pc # "holds"
    THEN UNCHANGED heldVars
    ELSE /\ result' = [kind |-> "dict",
                       dict |-> returned(out.red, out.orange, out.yellow),
                       shown |-> entries(out.red, out.orange, out.yellow)]
         /\ earlier' = result

\* a bucket that is not cleared
kept(bucket) == bucket

\* list.clear()
cleared(bucket) == <<>>

\* generate_all_alerts without self.yellow_alerts.clear()
generate_all_alerts_yellow_kept ==
    /\ pc \in AlertCallers
    /\ \E t_zombie \in {t \in ClockReadings : now <= t /\ t <= now + MaxDrift} :
          LET out == generate_from(<<>>, <<>>, yellow_alerts, df, now, t_zombie)
          IN  /\ red_alerts' = out.red
              /\ orange_alerts' = out.orange
              /\ yellow_alerts' = out.yellow
              /\ now' = IF out.raised THEN now ELSE t_zombie
              /\ call' = Call("generate_all_alerts", out.raised, now,
                              IF out.raised THEN now ELSE t_zombie)
              /\ hold(out)
    /\ UNCHANGED <<scoreVars, loadVars, df>>

generate_all_alerts ==
    /\ pc \in AlertCallers
    /\ \E t_zombie \in {t \in ClockReadings : now <= t /\ t <= now + MaxDrift} :
          LET out == generate_from(cleared(red_alerts), cleared(orange_alerts),
                                   cleared(yellow_alerts), df, now, t_zombie)
          IN  /\ red_alerts' = out.red
              /\ orange_alerts' = out.orange
              /\ yellow_alerts' = out.yellow
              /\ now' = IF out.raised THEN now ELSE t_zombie
              /\ call' = Call("generate_all_alerts", out.raised, now,
                              IF out.raised THEN now ELSE t_zombie)
              /\ hold(out)
    /\ UNCHANGED <<scoreVars, loadVars, df>>

\* the caller's table loses a row between two calls
RemoveRow ==
    /\ pc \in AlertCallers
    /\ \E i \in 1..Len(df) :
          df' = [k \in 1..(Len(df) - 1) |-> IF k < i THEN df[k] ELSE df[k + 1]]
    /\ call' = [call EXCEPT !.op = "edit"]
    /\ UNCHANGED <<now, scoreVars, loadVars, heldVars, red_alerts, orange_alerts, yellow_alerts>>

\* time passes between two calls
Tick ==
    /\ pc \in AlertCallers
    /\ \E t \in ClockReadings : t > now /\ now' = t
    /\ UNCHANGED <<scoreVars, alertVars, loadVars, heldVars>>

Next ==
    \/ check_high_value_no_followup
    \/ check_cold_leads
    \/ check_unnamed_ratio
    \/ check_grade_distribution
    \/ check_zombie_leads
    \/ generate_all_alerts
    \/ RemoveRow
    \/ Tick

Spec == InitAlerts /\ [][Next]_vars

-----------------------------------------------------------------------------
(* A caller that keeps the dicts generate_all_alerts returns *)

InitHeld ==
    /\ now \in ClockReadings
    /\ df \in Tables
    /\ red_alerts = <<>>
    /\ orange_alerts = <<>>
    /\ yellow_alerts = <<>>
    /\ call = NoCall
    /\ result = NoResult
    /\ earlier = NoResult
    /\ row = Row(1, "named", "douyin", "A", NaN, NaN, NaN, NaN)
    /\ score = NoScore
    /\ level = "none"
    /\ decay = NoScore
    /\ pc = "holds"
    /\ csv = NoFile
    /\ points = PointTables
    /\ data = NoData
    /\ loaded = "none"
    /\ view = "none"

NextHeld ==
    \/ generate_all_alerts
    \/ check_high_value_no_followup
    \/ RemoveRow
    \/ Tick

SpecHeld == InitHeld /\ [][NextHeld]_vars

-----------------------------------------------------------------------------
(* The two table-level rules on tables of up to MaxShareRows records *)

MaxShareRows == 10

\* records that trigger no per-record rule and differ in name and grade
ShareRows ==
    {Row(7, n, "douyin", g, NaN, Date(0), NaN, Date(0)) :
        n \in {"unnamed", "named"}, g \in {"D", "other"}}

Rep(r, k) == [i \in 1..k |-> r]

\* len(df[...]) counts rows and does not look at their order: the long tables
\* list their records kind by kind, the short ones in every order
ShareTables ==
    {Rep(Row(7, "unnamed", "douyin", "D", NaN, Date(0), NaN, Date(0)), k[1])
        \o Rep(Row(7, "named", "douyin", "other", NaN, Date(0), NaN, Date(0)), k[2])
        \o Rep(Row(7, "named", "douyin", "D", NaN, Date(0), NaN, Date(0)), k[3]) :
        k \in {c \in [1..3 -> 0..MaxShareRows] : c[1] + c[2] + c[3] <= MaxShareRows}}
      \cup SeqsUpTo(ShareRows, MaxRows)

InitRatio ==
    /\ now = ColdDays * TicksPerDay
    /\ df \in ShareTables
    /\ red_alerts = <<>>
    /\ orange_alerts = <<>>
    /\ yellow_alerts = <<>>
    /\ call = NoCall
    /\ result = NoResult
    /\ earlier = NoResult
    /\ row = Row(1, "named", "douyin", "A", NaN, NaN, NaN, NaN)
    /\ score = NoScore
    /\ level = "none"
    /\ decay = NoScore
    /\ pc = "alerts"
    /\ csv = NoFile
    /\ points = PointTables
    /\ data = NoData
    /\ loaded = "none"
    /\ view = "none"

NextRatio ==
    \/ check_unnamed_ratio
    \/ check_grade_distribution
    \/ generate_all_alerts

SpecRatio == InitRatio /\ [][NextRatio]_vars

-----------------------------------------------------------------------------
(* analyze_leads: read the CSV file, score every record, generate the alerts *)

\* the cells pd.read_csv gives: nan for an empty cell, a number, or text that is
\* a date or is not; it gives neither None nor ''
CsvRows ==
    {Row(8, "named", "douyin", "A", Num(0), Date(0), NaN, NaN),
     Row(8, "named", "live", "D", Num(2), Date(0), Date(0), NaN),
     Row(8, "missing", "douyin", "other", Num(2), Date(0), Date(0), NaN),
     Row(8, "named", "chuangke", "D", Num(2), Date(0), Date(0), BadStr),
     Row(8, "unnamed", "other_channel", "nan", BadStr, BadStr, Date(0), NaN),
     Row(8, "unnamed", "live", "B", NaN, BadStr, BadStr, Date(0))}

CsvColumns ==
    {"id", "name", "source", "grade", "followup_count", "first_consult",
     "last_followup", "enroll_time", "sales"}

\* a file that cannot be read, or a file of one record or more
CsvFiles ==
    {NoFile} \cup
    {[readable |-> TRUE, columns |-> CsvColumns, rows |-> t] :
        t \in SeqsUpTo(CsvRows, MaxRows) \ {<<>>}}

\* the row with the count normalised in place before the two columns are added
add_columns_normalising(r, s) ==
    [r EXCEPT !.followup_count = IF isna(@) THEN Num(0) ELSE @]
        @@ [priority_score |-> s, priority_level |-> get_priority_level(s)]

\* df['优先级分数'] = ..., df['优先级等级'] = ...: two columns beside the others
add_columns(r, s) ==
    r @@ [priority_score |-> s, priority_level |-> get_priority_level(s)]

\* df.apply(calculate_lead_score, axis=1): an exception in one row leaves the apply
RECURSIVE apply_score(_, _, _)
apply_score(rows, t_now, acc) ==
    IF rows = <<>> THEN Returned(acc)
    ELSE LET out == calculate_lead_score(Head(rows), t_now) IN
         IF out.raised THEN Raised
         ELSE apply_score(Tail(rows), t_now, Append(acc, add_columns(Head(rows), out.value)))

InitAnalyze ==
    /\ now \in ClockReadings
    /\ csv \in CsvFiles
    /\ df = <<>>
    /\ red_alerts = <<>>
    /\ orange_alerts = <<>>
    /\ yellow_alerts = <<>>
    /\ call = NoCall
    /\ result = NoResult
    /\ earlier = NoResult
    /\ row = Row(1, "named", "douyin", "A", NaN, NaN, NaN, NaN)
    /\ score = NoScore
    /\ level = "none"
    /\ decay = NoScore
    /\ pc = "analyze"
    /\ points = PointTables
    /\ data = NoData
    /\ loaded = "none"
    /\ view = "none"

\* pc afterwards: "read_failed" (None returned), "analyze_raised" (an exception
\* left the function) or "analyzed" (the results returned); df is results['data']
analyze_leads ==
    /\ pc = "analyze"
    /\ IF ~csv.readable
       THEN /\ pc' = "read_failed"
            /\ UNCHANGED <<now, alertVars>>
       ELSE LET scored == apply_score(csv.rows, now, <<>>) IN
            IF scored.raised
            THEN /\ pc' = "analyze_raised"
                 /\ df' = csv.rows
                 /\ UNCHANGED <<now, red_alerts, orange_alerts, yellow_alerts, call>>
            ELSE \E t_zombie \in {t \in ClockReadings : now <= t /\ t <= now + MaxDrift} :
                    LET out == generate_from(<<>>, <<>>, <<>>, scored.value, now, t_zombie)
                    IN  /\ df' = scored.value
                        /\ red_alerts' = out.red
                        /\ orange_alerts' = out.orange
                        /\ yellow_alerts' = out.yellow
                        /\ now' = IF out.raised THEN now ELSE t_zombie
                        /\ call' = Call("generate_all_alerts", out.raised, now,
                                        IF out.raised THEN now ELSE t_zombie)
                        /\ pc' = IF out.raised THEN "analyze_raised" ELSE "analyzed"
    /\ UNCHANGED <<row, score, level, decay, loadVars, heldVars>>

NextAnalyze == analyze_leads

SpecAnalyze == InitAnalyze /\ [][NextAnalyze]_vars

-----------------------------------------------------------------------------
(* SalesAnalyzer: load_data, preprocess_data and the page main renders *)

\* columns of the dashboard's table: name = 学员姓名, course = 报名课程,
\*   amount = 报名金额, enroll_time = 报名时间, last_followup = 最后回访时间,
\*   first_consult = 首咨时间, sales = 所属销售; derived: enrolled = 是否报名,
\*   followup_days = 跟进天数, department = 销售部门
\* text cells: Text(0) = text that is neither a date nor a number,
\*   Text(1) = 未命名, Text(2) = 未报名, Text(3) = a salesperson of 创客..部,
\*   Text(4) = the department taken from it
Text(n) == Cell("Str", n)
NaT == Cell("NaT", 0)
Bool(b) == Cell("Bool", IF b THEN 1 ELSE 0)

ExpectedColumns ==
    {"name", "course", "amount", "enroll_time", "last_followup", "first_consult", "sales"}
DerivedColumns == {"enrolled", "followup_days", "department"}

\* Series.notna()
notna(c) == c.kind \notin {"NaN", "None", "NaT"}

\* pd.to_datetime(.., errors='coerce'): what does not parse becomes NaT
to_datetime_coerce(c) == IF c.kind = "Date" THEN c ELSE NaT

\* pd.to_numeric(.., errors='coerce'): what is not a number becomes nan
to_numeric_coerce(c) == IF c.kind = "Num" THEN c ELSE NaN

\* Series.fillna(value)
fillna(c, value) == IF notna(c) THEN c ELSE value

\* a table, and whether an exception has left the preprocessing
Frame(cols, rws, x) == [columns |-> cols, rows |-> rws, raised |-> x]

\* self.data[col] = values, one value for each row
assign(t, col, values) ==
    Frame(t.columns \cup {col},
          [i \in 1..Len(t.rows) |-> (col :> values[i]) @@ t.rows[i]], FALSE)

\* the rows of the table, to compute a column from
Index(t) == 1..Len(t.rows)

\* self.data[col] on a table without that column: KeyError
missing(t, cols) == \E col \in cols : col \notin t.columns

\* for col in date_columns: if col in self.data.columns: pd.to_datetime(..)
convert_date(t, col) ==
    IF col \in t.columns THEN assign(t, col, [i \in Index(t) |-> to_datetime_coerce(t.rows[i][col])]) ELSE t

fill_name(t) ==
    IF t.raised THEN t
    ELSE IF missing(t, {"name"}) THEN [t EXCEPT !.raised = TRUE]
    ELSE assign(t, "name", [i \in Index(t) |-> fillna(t.rows[i]["name"], Text(1))])

fill_course(t) ==
    IF t.raised THEN t
    ELSE IF missing(t, {"course"}) THEN [t EXCEPT !.raised = TRUE]
    ELSE assign(t, "course", [i \in Index(t) |-> fillna(t.rows[i]["course"], Text(2))])

numeric_amount(t) ==
    IF t.raised THEN t
    ELSE IF missing(t, {"amount"}) THEN [t EXCEPT !.raised = TRUE]
    ELSE assign(t, "amount", [i \in Index(t) |-> to_numeric_coerce(t.rows[i]["amount"])])

derive_enrolled(t) ==
    IF t.raised THEN t
    ELSE IF missing(t, {"enroll_time"}) THEN [t EXCEPT !.raised = TRUE]
    ELSE assign(t, "enrolled", [i \in Index(t) |-> Bool(notna(t.rows[i]["enroll_time"]))])

\* (last - first).dt.days: whole days, nan when either is NaT
derive_followup_days(t) ==
    IF t.raised THEN t
    ELSE IF missing(t, {"last_followup", "first_consult"}) THEN [t EXCEPT !.raised = TRUE]
    ELSE assign(t, "followup_days",
                [i \in Index(t) |->
                    LET r == t.rows[i] IN
                    IF r["last_followup"].kind = "Date" /\ r["first_consult"].kind = "Date"
                    THEN Num(days_between(r["last_followup"].v, r["first_consult"].v))
                    ELSE NaN])

\* .str.extract(r'创客(.*?)部'): the .str accessor raises AttributeError on a column
\* that holds records and no text (pd.read_csv reads it as float64)
derive_department(t) ==
    IF t.raised THEN t
    ELSE IF missing(t, {"sales"}) THEN [t EXCEPT !.raised = TRUE]
    ELSE IF t.rows # <<>> /\ \A i \in 1..Len(t.rows) : t.rows[i]["sales"].kind # "Str"
         THEN [t EXCEPT !.raised = TRUE]
    ELSE assign(t, "department",
                [i \in Index(t) |-> IF t.rows[i]["sales"] = Text(3) THEN Text(4) ELSE NaN])

\* preprocess_data on a table held: the table it leaves, and whether it raised
preprocess_data(t) ==
    LET dates == convert_date(convert_date(convert_date(t, "first_consult"),
                                           "last_followup"), "enroll_time")
    IN  derive_department(derive_followup_days(derive_enrolled(
            numeric_amount(fill_course(fill_name(dates))))))

\* the cells pd.read_csv gives in each column
LoadCells(col) ==
    CASE col = "name" -> {NaN, Text(0)}
      [] col = "course" -> {NaN, Text(0)}
      [] col = "amount" -> {Num(1), Text(0)}
      [] col = "enroll_time" -> {NaN, Date(0), Text(0)}
      [] col = "last_followup" -> {NaN, Date(MaxStamp)}
      [] col = "first_consult" -> {Date(0), Text(0)}
      [] OTHER -> {NaN, Text(0), Text(3)}

\* the column sets of the files: every expected column, or all but one
LoadColumns == {ExpectedColumns} \cup {ExpectedColumns \ {c} : c \in ExpectedColumns}

\* the second record of a file of two: its salesperson cell is text or is empty
SecondRows(cols) ==
    {[c \in cols |-> IF c = "sales" THEN s
                     ELSE IF c \in {"name", "course", "last_followup"} THEN NaN
                     ELSE IF c = "amount" THEN Num(1)
                     ELSE Date(0)] : s \in {NaN, Text(3)}}

NoUpload == [uploaded |-> FALSE]

\* no file uploaded, a file that cannot be read, or a file of 0..2 records
LoadFiles ==
    {NoUpload, NoFile} \cup
    UNION {{[readable |-> TRUE, columns |-> cols, rows |-> t] :
               t \in {<<>>} \cup {<<r>> : r \in {f \in [cols -> UNION {LoadCells(c) : c \in cols}] :
                                                    \A c \in cols : f[c] \in LoadCells(c)}}
                             \cup {<<r1, r2>> : r1 \in SecondRows(cols), r2 \in SecondRows(cols)}} :
           cols \in LoadColumns}

InitLoad ==
    /\ now = 0
    /\ csv \in LoadFiles
    /\ data = NoData
    /\ loaded = "none"
    /\ view = "none"
    /\ pc = "main"
    /\ points = PointTables
    /\ df = <<>>
    /\ red_alerts = <<>>
    /\ orange_alerts = <<>>
    /\ yellow_alerts = <<>>
    /\ call = NoCall
    /\ result = NoResult
    /\ earlier = NoResult
    /\ row = Row(1, "named", "douyin", "A", NaN, NaN, NaN, NaN)
    /\ score = NoScore
    /\ level = "none"
    /\ decay = NoScore

\* self.data is assigned before preprocess_data runs and keeps what the
\* preprocessing had done when an exception left it
load_data ==
    /\ pc = "main"
    /\ csv # NoUpload
    /\ IF ~csv.readable
       THEN /\ loaded' = "false"
            /\ UNCHANGED data
       ELSE LET out == preprocess_data(Frame(csv.columns, csv.rows, FALSE)) IN
            /\ data' = [held |-> TRUE, columns |-> out.columns, rows |-> out.rows]
            /\ loaded' = IF out.raised THEN "false" ELSE "true"
    /\ pc' = "loaded"
    /\ UNCHANGED <<now, row, score, level, decay, csv, points, view, alertVars, heldVars>>

\* main: the tabs when analyzer.data is not None, the upload hint otherwise
render ==
    /\ pc = "loaded" \/ (pc = "main" /\ csv = NoUpload)
    /\ view' = IF data.held THEN "tabs" ELSE "info"
    /\ pc' = "rendered"
    /\ UNCHANGED <<now, row, score, level, decay, csv, points, data, loaded, alertVars, heldVars>>

NextLoad == load_data \/ render

SpecLoad == InitLoad /\ [][NextLoad]_vars

-----------------------------------------------------------------------------
(* Properties of the scoring engine, checked under SpecScore *)

Levels == {"urgent", "priority", "routine", "low"}
KnownChannels == {"douyin", "live", "chuangke"}
TableGrades == {"A", "B", "C", "D", "E", "other"}

\* the follow-up count is a number or is absent
NumericCount(r) == r.followup_count.kind \in {"Num", "NaN", "None"}
ScoredPc == pc \in {"scored", "levelled"}

\* C1: for every record whose follow-up count is a number (negative and above 10
\* included) or absent, calculate_lead_score returns an integer in 0..100, and the
\* level computed from it is one of the four levels.
C1_ScoreInRange ==
    NumericCount(row) =>
        /\ pc # "raised"
        /\ ScoredPc => score \in 0..100
        /\ pc = "levelled" => level \in Levels

C1_Witness ==
    /\ pc = "levelled"
    /\ row.followup_count = Num(0 - 1)
    /\ row.source = "other_channel"
    /\ row.first_consult = NaN
    /\ level = "low"

\* C2: get_priority_level maps a score to urgent exactly from 90 up, priority exactly
\* in 70..89, routine exactly in 50..69 and low exactly below 50.
C2_LevelBoundaries ==
    pc = "levelled_given" =>
        /\ level = "urgent" <=> score >= 90
        /\ level = "priority" <=> (70 <= score /\ score <= 89)
        /\ level = "routine" <=> (50 <= score /\ score <= 69)
        /\ level = "low" <=> score < 50
        /\ score = 90 => level = "urgent"
        /\ score = 89 => level = "priority"
        /\ score = 70 => level = "priority"
        /\ score = 69 => level = "routine"
        /\ score = 50 => level = "routine"
        /\ score = 49 => level = "low"

C2_Witness == pc = "levelled_given" /\ score = 90 /\ level = "urgent"

\* the point tables as the specification states them
C3_ChannelPoints(ch) ==
    IF ch = "douyin" THEN 35 ELSE IF ch = "live" THEN 30
    ELSE IF ch = "chuangke" THEN 25 ELSE 20
C3_GradePoints(g) ==
    IF g = "A" THEN 30 ELSE IF g = "B" THEN 25 ELSE IF g = "C" THEN 20
    ELSE IF g = "D" THEN 15 ELSE IF g = "E" THEN 10 ELSE 5
C3_FollowupPoints(n) ==
    IF n = 0 THEN 0 ELSE IF n <= 2 THEN 15 ELSE IF n <= 5 THEN 20
    ELSE IF n <= 7 THEN 15 ELSE IF n <= 9 THEN 10 ELSE 5

\* C3: the score is min(100, channel + grade + follow-up(min(count, 10)) + decay),
\* with the stated channel, grade and follow-up tables (an absent count counts as 0).
C3_ScoreFormula ==
    (ScoredPc /\ (isna(row.followup_count) \/ row.followup_count.v >= 0)) =>
        LET n == IF isna(row.followup_count) THEN 0 ELSE row.followup_count.v
            m == IF n <= 10 THEN n ELSE 10
            sum == C3_ChannelPoints(row.source) + C3_GradePoints(row.grade)
                     + C3_FollowupPoints(m)
                     + calculate_time_decay(row.first_consult, now)
        IN  score = IF sum <= 100 THEN sum ELSE 100

C3_Witness ==
    /\ ScoredPc
    /\ row.source = "live" /\ row.grade = "B" /\ row.followup_count = Num(7)
    /\ row.first_consult = Date(0) /\ now = 0
    /\ score = 30 + 25 + 15 + 10

\* C4: an unknown channel scores 20, a grade outside the table 5, a count above 10
\* the value of count 10 (5), an absent or negative count 0, and no such record
\* makes calculate_lead_score raise.
C4_Defaults ==
    LET c == row.followup_count
        offTable == \/ row.source \notin KnownChannels
                    \/ row.grade \notin TableGrades
                    \/ isna(c)
                    \/ (c.kind = "Num" /\ (c.v < 0 \/ c.v > 10))
        chan == IF row.source \notin KnownChannels THEN 20 ELSE channel_scores(row.source)
        grad == IF row.grade \notin TableGrades THEN 5 ELSE grade_scores(row.grade)
        foll == IF isna(c) THEN 0
                ELSE IF c.v < 0 THEN 0
                ELSE IF c.v > 10 THEN 5
                ELSE followup_scores(c.v)
        sum == chan + grad + foll + calculate_time_decay(row.first_consult, now)
    IN  (NumericCount(row) /\ offTable) =>
            /\ pc # "raised"
            /\ ScoredPc => score = IF sum <= 100 THEN sum ELSE 100

C4_Witness ==
    /\ ScoredPc
    /\ row.source = "other_channel" /\ row.grade = "nan"
    /\ row.followup_count = Num(11) /\ row.first_consult = BadStr
    /\ score = 20 + 5 + 5

\* whole days from t to t_now, for t not after t_now
C5_WholeDays(t_now, t) ==
    CHOOSE k \in 0..(t_now - t) :
        k * TicksPerDay <= t_now - t /\ t_now - t < (k + 1) * TicksPerDay

\* C5: calculate_time_decay gives 10 at 0 whole days before now, 8 at 1..3, 5 at
\* 4..7, 0 from 8 on, and 0 for an absent or unparseable consultation date.
C5_TimeDecay ==
    pc = "decayed" =>
        LET c == row.first_consult IN
        /\ (c.kind = "Date" /\ c.v <= now) =>
              LET d == C5_WholeDays(now, c.v) IN
              /\ d = 0 => decay = 10
              /\ (1 <= d /\ d <= 3) => decay = 8
              /\ (4 <= d /\ d <= 7) => decay = 5
              /\ d >= 8 => decay = 0
        /\ c.kind \in {"NaN", "None", "Empty", "Str"} => decay = 0

C5_Witness ==
    /\ pc = "decayed"
    /\ row.first_consult.kind = "Date"
    /\ now - row.first_consult.v = 3 * TicksPerDay
    /\ decay = 8

\* the other boundaries of C5 are reached as well
C5_Reach7 ==
    /\ pc = "decayed" /\ row.first_consult.kind = "Date"
    /\ now - row.first_consult.v = 7 * TicksPerDay /\ decay = 5
C5_Reach8 ==
    /\ pc = "decayed" /\ row.first_consult.kind = "Date"
    /\ now - row.first_consult.v = 8 * TicksPerDay /\ decay = 0

\* C24: the clamp at 100 never takes effect: for every record (its count a number
\* or absent) the four contributions add up to a sum in 25..95, and the score
\* calculate_lead_score returns is that plain sum.
C24_ClampIdle ==
    (ScoredPc /\ NumericCount(row)) =>
        LET c == row.followup_count
            n == IF isna(c) THEN 0 ELSE c.v
            foll == IF n < 0 THEN 0 ELSE C3_FollowupPoints(IF n <= 10 THEN n ELSE 10)
            sum == C3_ChannelPoints(row.source) + C3_GradePoints(row.grade) + foll
                     + calculate_time_decay(row.first_consult, now)
        IN  /\ 25 <= sum /\ sum <= 95
            /\ score = sum

\* the largest sum: 35 + 30 + 20 + 10
C24_Witness ==
    /\ ScoredPc
    /\ row.source = "douyin" /\ row.grade = "A" /\ row.followup_count = Num(4)
    /\ row.first_consult = Date(0) /\ now = 1
    /\ score = 95

\* the smallest sum: 20 + 5 + 0 + 0
C24_ReachLeast ==
    /\ ScoredPc
    /\ row.source = "other_channel" /\ row.grade = "nan" /\ row.followup_count = NaN
    /\ row.first_consult = NaN
    /\ score = 25

\* C29: for a consultation timestamp later than now calculate_time_decay returns
\* 8, one tick ahead or MaxAhead days ahead: neither 10 nor 0.
C29_FutureDated ==
    (pc = "decayed" /\ row.first_consult.kind = "Date" /\ row.first_consult.v > now)
        => decay = 8

C29_Witness ==
    /\ pc = "decayed"
    /\ row.first_consult.kind = "Date"
    /\ row.first_consult.v - now >= MaxAhead * TicksPerDay
    /\ decay = 8

\* a consultation later on the same day as now
C29_ReachOneTick ==
    /\ pc = "decayed"
    /\ row.first_consult.kind = "Date"
    /\ row.first_consult.v = now + 1
    /\ decay = 8

-----------------------------------------------------------------------------
(* Properties of the alert engine, checked under Spec *)

Generated == call.op = "generate_all_alerts"
Returns == Generated /\ ~call.raised

OfType(bucket, type) == SelectSeq(bucket, LAMBDA a : a.type = type)
MapRows(rows, F(_)) == [i \in 1..Len(rows) |-> F(rows[i])]

\* between the clock readings t1 and t2 no timestamp of the table in the columns
\* cols changes sides of the cutoff of that many days
C6_SameSide(t1, t2, days, cols) ==
    \A i \in 1..Len(df) : \A col \in cols :
        df[i][col].kind = "Date" =>
            (df[i][col].v < t1 - days * TicksPerDay
                <=> df[i][col].v < t2 - days * TicksPerDay)

\* C6 as stated: a generate_all_alerts call that follows a generate_all_alerts call
\* on the same unmodified table leaves the three buckets as it found them.
C6_Idempotent ==
    [][(Returns /\ call'.op = "generate_all_alerts" /\ ~call'.raised /\ df' = df)
          => (red_alerts' = red_alerts /\ orange_alerts' = orange_alerts
              /\ yellow_alerts' = yellow_alerts)]_vars

\* C6 as amended: the same, provided that between the clock readings of the two
\* calls no last-follow-up timestamp crosses the 3-day cutoff and no last-follow-up
\* or first-consultation timestamp crosses the 7-day cutoff.
C6_IdempotentSameSide ==
    [][(Returns /\ call'.op = "generate_all_alerts" /\ ~call'.raised /\ df' = df
          /\ C6_SameSide(call.t_cold, call'.t_cold, 3, {"last_followup"})
          /\ C6_SameSide(call.t_zombie, call'.t_zombie, 7,
                         {"last_followup", "first_consult"}))
          => (red_alerts' = red_alerts /\ orange_alerts' = orange_alerts
              /\ yellow_alerts' = yellow_alerts)]_vars

C6_Witness ==
    /\ Returns /\ call.again
    /\ Len(df) = 2
    /\ Len(red_alerts) = 2 /\ Len(yellow_alerts) = 2
    /\ call.held = 4

\* C7: when generate_all_alerts returns, the buckets hold exactly what the five
\* rules give on the table from empty buckets, whatever they held before.
C7_ExactlyTheRules ==
    Returns =>
        /\ red_alerts = high_value_loop(df, <<>>).alerts
                           \o cold_loop(df, cutoff(call.t_cold, ColdDays), <<>>).alerts
        /\ orange_alerts = grade_distribution_alerts(df)
        /\ yellow_alerts = unnamed_ratio_alerts(df)
                              \o zombie_loop(df, cutoff(call.t_zombie, ZombieDays), <<>>).alerts

\* the call began with more alerts in the buckets than the table gives
C7_Witness ==
    /\ Returns
    /\ call.held > Len(red_alerts) + Len(orange_alerts) + Len(yellow_alerts)
    /\ Len(orange_alerts) = 1

\* the trigger of rule 1 as the specification states it
C8_Trigger(r) ==
    /\ r.grade \in {"A", "B", "C"}
    /\ \/ r.followup_count.kind \in {"NaN", "None"}
       \/ r.followup_count = Num(0)

\* C8: after generate_all_alerts the red bucket holds one high-value alert for each
\* record of grade A, B or C with an absent or zero follow-up count, in row order,
\* and no other high-value alert.
C8_HighValueRule ==
    Generated =>
        OfType(red_alerts, "high_value_no_followup")
            = MapRows(SelectSeq(df, C8_Trigger), high_value_alert)

C8_Witness ==
    /\ Generated
    /\ Len(df) = 1 /\ df[1].grade = "A" /\ df[1].followup_count = NaN
    /\ Len(OfType(red_alerts, "high_value_no_followup")) = 1

\* the alert for a record of grade C is reached as well
C8_ReachGradeC ==
    /\ Generated
    /\ Len(df) = 1 /\ df[1].grade = "C" /\ df[1].followup_count = Num(0)
    /\ Len(OfType(red_alerts, "high_value_no_followup")) = 1

\* the trigger of rule 2 as the specification states it, the clock read at t
C9_Trigger(r, t) ==
    /\ r.followup_count.kind = "Num" /\ r.followup_count.v > 0
    /\ r.last_followup.kind = "Date"
    /\ r.last_followup.v < t - 3 * TicksPerDay

\* C9: after generate_all_alerts returns, the red bucket holds one cold-lead alert
\* for each record with a follow-up count above 0 and a last follow-up earlier than
\* now - 3 days, in row order, and no other cold-lead alert.
C9_ColdRule ==
    Returns =>
        OfType(red_alerts, "cold_lead")
            = MapRows(SelectSeq(df, LAMBDA r : C9_Trigger(r, call.t_cold)), cold_alert)

C9_Witness ==
    /\ Returns
    /\ Len(df) = 1 /\ df[1].followup_count = Num(2) /\ df[1].last_followup = Date(0)
    /\ call.t_cold = ColdDays * TicksPerDay + 1
    /\ Len(OfType(red_alerts, "cold_lead")) = 1

\* a last follow-up exactly 3 days before the call gives no alert
C9_ReachOnCutoff ==
    /\ Returns
    /\ Len(df) = 1 /\ df[1].followup_count = Num(2) /\ df[1].last_followup = Date(0)
    /\ call.t_cold = ColdDays * TicksPerDay
    /\ red_alerts = <<>>

\* C10: a record with no enrollment timestamp, no last-follow-up timestamp and a
\* first consultation earlier than now - 7 days gets exactly one zombie alert,
\* which carries the first consultation as its last update.
C10_ZombieFallback ==
    Returns =>
        \A i \in 1..Len(df) :
            LET r == df[i] IN
            (/\ r.enroll_time.kind \in {"NaN", "None"}
             /\ r.last_followup.kind \in {"NaN", "None", "Empty"}
             /\ r.first_consult.kind = "Date"
             /\ r.first_consult.v < call.t_zombie - 7 * TicksPerDay)
            => /\ \E k \in 1..Len(yellow_alerts) :
                     yellow_alerts[k] = zombie_alert(r, r.first_consult)
               /\ Len(df) = 1 => Len(OfType(yellow_alerts, "zombie")) = 1

\* the fallback does happen when the last follow-up is None or '' and not nan
C10_ReachFallback ==
    /\ Returns
    /\ Len(df) = 1 /\ df[1].last_followup \in {None, Empty}
    /\ df[1].first_consult = Date(0)
    /\ yellow_alerts = <<zombie_alert(df[1], Date(0))>>

\* the enrollment cell holds something: a date, or text that is not a date
C11_Enrolled(r) == r.enroll_time.kind \in {"Date", "Str", "Empty"}

\* C11: a record whose enrollment cell is present gets no zombie alert, whatever
\* its last follow-up and consultation are: the zombie alerts of a table are
\* those of the table without its enrolled records, and a table of enrolled
\* records only has none.
C11_EnrolledNeverZombie ==
    (Returns \/ (call.op = "check_zombie_leads" /\ call.held = 0)) =>
        LET open == SelectSeq(df, LAMBDA r : ~C11_Enrolled(r)) IN
        /\ OfType(yellow_alerts, "zombie")
              = zombie_loop(open, cutoff(call.t_zombie, ZombieDays), <<>>).alerts
        /\ Len(OfType(yellow_alerts, "zombie")) <= Len(open)

\* an enrolled record and an open one, both last followed up long ago: one alert
C11_Witness ==
    /\ Returns
    /\ Len(df) = 2
    /\ df[1].enroll_time = Date(0) /\ df[1].last_followup = Date(0)
    /\ df[2].enroll_time = NaN /\ df[2].last_followup = Date(0)
    /\ call.t_zombie = ZombieDays * TicksPerDay + 1
    /\ Len(OfType(yellow_alerts, "zombie")) = 1

\* the timestamp rule 5 looks at
C16_LastUpdate(r) == IF Truthy(r.last_followup) THEN r.last_followup ELSE r.first_consult

\* the records rule 2 and rule 5 reach the date parsing with, and cannot parse
C16_ColdUnparseable(r) ==
    /\ r.followup_count.kind = "Num" /\ r.followup_count.v > 0
    /\ r.last_followup.kind = "Str"
C16_ZombieUnparseable(r) == C16_LastUpdate(r).kind = "Str"

\* rule 5 is due for the record, the clock read at t
C16_ZombieDue(r, t) ==
    /\ r.enroll_time.kind \in {"NaN", "None"}
    /\ C16_LastUpdate(r).kind = "Date"
    /\ C16_LastUpdate(r).v < t - 7 * TicksPerDay

C16_Has(bucket, alert) == \E k \in 1..Len(bucket) : bucket[k] = alert

\* C16: in rules 2 and 5 a record whose timestamp is present and unparseable gets
\* no alert and raises no error, and the records after it are still evaluated:
\* those that are due get their alert.
C16_SkipsUnparseable ==
    /\ (call.op \in {"generate_all_alerts", "check_cold_leads", "check_zombie_leads"}
          /\ \A i \in 1..Len(df) : df[i].followup_count.kind \in {"Num", "NaN", "None"})
        => ~call.raised
    /\ (Returns \/ (call.op = "check_cold_leads" /\ ~call.raised /\ call.held = 0)) =>
          /\ \A k \in 1..Len(red_alerts) :
                red_alerts[k].type = "cold_lead" => red_alerts[k].last_followup.kind = "Date"
          /\ \A i \in 1..Len(df) : \A j \in 1..Len(df) :
                (C16_ColdUnparseable(df[i]) /\ i < j /\ C9_Trigger(df[j], call.t_cold))
                    => C16_Has(red_alerts, cold_alert(df[j]))
    /\ (Returns \/ (call.op = "check_zombie_leads" /\ call.held = 0)) =>
          /\ \A k \in 1..Len(yellow_alerts) :
                yellow_alerts[k].type = "zombie" => yellow_alerts[k].last_update.kind = "Date"
          /\ \A i \in 1..Len(df) : \A j \in 1..Len(df) :
                (C16_ZombieUnparseable(df[i]) /\ i < j /\ C16_ZombieDue(df[j], call.t_zombie))
                    => C16_Has(yellow_alerts, zombie_alert(df[j], C16_LastUpdate(df[j])))

\* an unparseable last follow-up in the first record, a due record after it
C16_Witness ==
    /\ Returns
    /\ Len(df) = 2
    /\ C16_ColdUnparseable(df[1]) /\ C16_ZombieUnparseable(df[1])
    /\ df[2].last_followup = Date(0) /\ df[2].enroll_time = NaN
    /\ red_alerts = <<cold_alert(df[2])>>
    /\ yellow_alerts = <<zombie_alert(df[2], Date(0))>>

\* bucket b is bucket a with entries appended
C19_Extends(a, b) == Len(a) <= Len(b) /\ SubSeq(b, 1, Len(a)) = a

\* C19: a check_* rule called on its own only appends to its own bucket: rules 1
\* and 2 to red, rule 4 to orange, rules 3 and 5 to yellow; the entries the
\* bucket held stay in place and the other two buckets are unchanged.
C19_OwnBucketOnly ==
    [][/\ call'.op \in {"check_high_value_no_followup", "check_cold_leads"} =>
             /\ C19_Extends(red_alerts, red_alerts')
             /\ orange_alerts' = orange_alerts /\ yellow_alerts' = yellow_alerts
       /\ call'.op = "check_grade_distribution" =>
             /\ C19_Extends(orange_alerts, orange_alerts')
             /\ red_alerts' = red_alerts /\ yellow_alerts' = yellow_alerts
       /\ call'.op \in {"check_unnamed_ratio", "check_zombie_leads"} =>
             /\ C19_Extends(yellow_alerts, yellow_alerts')
             /\ red_alerts' = red_alerts /\ orange_alerts' = orange_alerts]_vars

\* rule 4 called with an alert in red and after a call of its own: orange grows
C19_Witness ==
    /\ call.op = "check_grade_distribution"
    /\ call.held = 1
    /\ Len(red_alerts) = 1 /\ Len(orange_alerts) = 1 /\ yellow_alerts = <<>>

\* rule 5 appends behind the alert of rule 3
C19_ReachAppended ==
    /\ call.op = "check_zombie_leads"
    /\ call.held = 1
    /\ Len(yellow_alerts) = 2
    /\ yellow_alerts[1].type = "naming" /\ yellow_alerts[2].type = "zombie"

\* the ids of the alerts of one type in a bucket, and of the rows of a table
C21_AlertIds(bucket, type) ==
    LET a == OfType(bucket, type) IN [k \in 1..Len(a) |-> a[k].id]
C21_RowIds(rows) == [i \in 1..Len(rows) |-> rows[i].id]

\* a is b with some of its entries left out
RECURSIVE C21_SubSeq(_, _)
C21_SubSeq(a, b) ==
    IF a = <<>> THEN TRUE
    ELSE IF b = <<>> THEN FALSE
    ELSE IF Head(a) = Head(b) THEN C21_SubSeq(Tail(a), Tail(b))
    ELSE C21_SubSeq(a, Tail(b))

\* C21: within each per-record rule the alerts stand in the bucket in the row
\* order of the table: the ids of the alerts of rule 1, of rule 2 and of rule 5
\* are the ids of the table's rows with some left out, and of two different
\* records that both trigger rule 1 the earlier one's alert comes first.
C21_RowOrder ==
    Returns =>
        /\ C21_SubSeq(C21_AlertIds(red_alerts, "high_value_no_followup"), C21_RowIds(df))
        /\ C21_SubSeq(C21_AlertIds(red_alerts, "cold_lead"), C21_RowIds(df))
        /\ C21_SubSeq(C21_AlertIds(yellow_alerts, "zombie"), C21_RowIds(df))
        /\ (Len(df) = 2 /\ C8_Trigger(df[1]) /\ C8_Trigger(df[2])) =>
              /\ red_alerts[1].id = df[1].id
              /\ red_alerts[2].id = df[2].id

\* two different records that trigger rules 1 and 5, and two that trigger 2 and 5
C21_Witness ==
    /\ Returns
    /\ Len(df) = 2 /\ df[1].id # df[2].id
    /\ C8_Trigger(df[1]) /\ C8_Trigger(df[2])
    /\ C21_AlertIds(red_alerts, "high_value_no_followup") = C21_RowIds(df)
    /\ C21_AlertIds(yellow_alerts, "zombie") = C21_RowIds(df)

C21_ReachColdOrder ==
    /\ Returns
    /\ Len(df) = 2 /\ df[1].id # df[2].id
    /\ C21_AlertIds(red_alerts, "cold_lead") = C21_RowIds(df)

\* the trigger of rule 5 as the specification states it, the clock read at t:
\* no enrollment, and the last follow-up, or the first consultation when the
\* last follow-up is absent, earlier than t - 7 days
C22_ZombieTrigger(r, t) ==
    LET activity == IF r.last_followup.kind \in {"NaN", "None", "Empty"}
                    THEN r.first_consult ELSE r.last_followup
    IN  /\ r.enroll_time.kind \in {"NaN", "None"}
        /\ activity.kind = "Date"
        /\ activity.v < t - 7 * TicksPerDay

\* C22: in one generate_all_alerts run a record that satisfies the trigger of
\* rule 5 and the trigger of rule 1 or of rule 2 gets both alerts, one in the red
\* bucket and one in the yellow bucket.
C22_BothAlerts ==
    Returns =>
        \A i \in 1..Len(df) :
            LET r == df[i] IN
            /\ (C22_ZombieTrigger(r, call.t_zombie) /\ C8_Trigger(r)) =>
                  /\ C16_Has(red_alerts, high_value_alert(r))
                  /\ \E k \in 1..Len(yellow_alerts) :
                        yellow_alerts[k].type = "zombie" /\ yellow_alerts[k].id = r.id
            /\ (C22_ZombieTrigger(r, call.t_zombie) /\ C9_Trigger(r, call.t_cold)) =>
                  /\ C16_Has(red_alerts, cold_alert(r))
                  /\ \E k \in 1..Len(yellow_alerts) :
                        yellow_alerts[k].type = "zombie" /\ yellow_alerts[k].id = r.id

\* the same with the test rule 5 makes in the code (a nan last follow-up is kept
\* and the record skipped): no rule suppresses another
C22_BothWhenDue ==
    Returns =>
        \A i \in 1..Len(df) :
            LET r == df[i] IN
            /\ (C16_ZombieDue(r, call.t_zombie) /\ C8_Trigger(r)) =>
                  /\ C16_Has(red_alerts, high_value_alert(r))
                  /\ C16_Has(yellow_alerts, zombie_alert(r, C16_LastUpdate(r)))
            /\ (C16_ZombieDue(r, call.t_zombie) /\ C9_Trigger(r, call.t_cold)) =>
                  /\ C16_Has(red_alerts, cold_alert(r))
                  /\ C16_Has(yellow_alerts, zombie_alert(r, C16_LastUpdate(r)))

\* a record in both buckets: rule 2 and rule 5
C22_ReachBoth ==
    /\ Returns
    /\ Len(df) = 1
    /\ red_alerts = <<cold_alert(df[1])>>
    /\ yellow_alerts = <<zombie_alert(df[1], df[1].last_followup)>>

C23_Shaped(bucket, lvl) ==
    \A k \in 1..Len(bucket) :
        /\ {"type", "level", "suggestion"} \subseteq DOMAIN bucket[k]
        /\ bucket[k].level = lvl
        /\ bucket[k].type \in {"high_value_no_followup", "cold_lead", "naming",
                               "grading", "zombie"}

\* C23: in every state that check_* and generate_all_alerts calls reach, every
\* alert in a bucket has the fields type, level and suggestion, and its level is
\* the one of the bucket that holds it.
C23_AlertShape ==
    /\ C23_Shaped(red_alerts, "red")
    /\ C23_Shaped(orange_alerts, "orange")
    /\ C23_Shaped(yellow_alerts, "yellow")

\* alerts of four rules in the three buckets at once
C23_Witness ==
    /\ Generated
    /\ Len(red_alerts) = 1 /\ Len(orange_alerts) = 1 /\ Len(yellow_alerts) = 2
    /\ yellow_alerts[2].type = "zombie"

\* how many entries of a sequence satisfy a test on their id
C26_CountId(seq, i) == Cardinality({k \in 1..Len(seq) : seq[k].id = i})

\* C26: after generate_all_alerts each record of the table has at most one alert
\* in the red bucket: no record satisfies the triggers of rule 1 and of rule 2
\* together, and the red alerts of an id are no more than the records of that id.
C26_OneRedAlert ==
    Generated =>
        /\ \A i \in 1..Len(df) : ~(C8_Trigger(df[i]) /\ C9_Trigger(df[i], call.t_cold))
        /\ \A i \in 1..Len(df) :
              C26_CountId(red_alerts, df[i].id) <= C26_CountId(df, df[i].id)
        /\ Len(red_alerts) <= Len(df)

\* two records with different ids, one alert each: rule 1 for one, rule 2 for the other
C26_Witness ==
    /\ Returns
    /\ Len(df) = 2 /\ df[1].id # df[2].id
    /\ df[1].grade = "A" /\ df[2].grade = "A"
    /\ red_alerts = <<high_value_alert(df[1]), cold_alert(df[2])>>

\* C27: for a fixed table the per-record alerts only accumulate as the clock
\* advances: what a generate_all_alerts call leaves in red and yellow is still
\* there, in the same order, after a later call on the same table, and the
\* summary alerts of rules 3 and 4 are the same at both times.
C27_Accumulates ==
    [][(Returns /\ call'.op = "generate_all_alerts" /\ ~call'.raised /\ df' = df)
          => /\ C21_SubSeq(red_alerts, red_alerts')
             /\ C21_SubSeq(yellow_alerts, yellow_alerts')
             /\ OfType(yellow_alerts', "naming") = OfType(yellow_alerts, "naming")
             /\ orange_alerts' = orange_alerts]_vars

\* the later call has added an alert to the one the earlier call gave
C27_Witness ==
    /\ Returns /\ call.again
    /\ Len(df) = 1
    /\ call.held = 1
    /\ Len(red_alerts) = 1 /\ Len(yellow_alerts) = 1
    /\ red_alerts[1].type = "cold_lead" /\ yellow_alerts[1].type = "zombie"

\* C28: after generate_all_alerts the buckets follow the order in which the rules
\* run: in red every rule-1 alert stands before every rule-2 alert, in yellow the
\* unnamed-ratio alert, when there is one, stands before every zombie alert.
C28_RuleOrder ==
    Returns =>
        /\ \A k \in 1..Len(red_alerts) : \A l \in 1..Len(red_alerts) :
              (red_alerts[k].type = "high_value_no_followup"
                  /\ red_alerts[l].type = "cold_lead") => k < l
        /\ \A k \in 1..Len(yellow_alerts) : \A l \in 1..Len(yellow_alerts) :
              (yellow_alerts[k].type = "naming" /\ yellow_alerts[l].type = "zombie") => k < l

\* the record of the rule-2 alert stands first in the table, its alert second
C28_Witness ==
    /\ Returns
    /\ Len(df) = 2
    /\ red_alerts = <<high_value_alert(df[2]), cold_alert(df[1])>>

\* the summary alert before a zombie alert
C28_ReachYellow ==
    /\ Returns
    /\ Len(yellow_alerts) = 2
    /\ yellow_alerts[1].type = "naming" /\ yellow_alerts[2].type = "zombie"

\* C30: rule 1 does not look at the enrollment: a record of grade A, B or C with
\* an absent or zero follow-up count has its red alert also when its enrollment
\* timestamp is present.
C30_EnrolledHighValue ==
    Generated =>
        \A i \in 1..Len(df) :
            (C8_Trigger(df[i]) /\ df[i].enroll_time.kind = "Date")
                => /\ C16_Has(red_alerts, high_value_alert(df[i]))
                   /\ high_value_alert(df[i]).suggestion = "arrange_first_followup"
                   /\ high_value_alert(df[i]).level = "red"

C30_Witness ==
    /\ Generated
    /\ Len(df) = 1
    /\ df[1].grade = "B" /\ df[1].followup_count = Num(0)
    /\ df[1].enroll_time = Date(0)
    /\ red_alerts = <<high_value_alert(df[1])>>

\* C25: generate_all_alerts returns the engine's own lists: once a later call has
\* returned, the dict an earlier call returned shows what the later dict shows,
\* the later table's alerts, whatever it showed when it was returned.
C25_EarlierShowsLater ==
    (Returns /\ earlier.kind = "dict") =>
        /\ shows(earlier.dict, red_alerts, orange_alerts, yellow_alerts)
              = shows(result.dict, red_alerts, orange_alerts, yellow_alerts)
        /\ shows(earlier.dict, red_alerts, orange_alerts, yellow_alerts)
              = entries(red_alerts, orange_alerts, yellow_alerts)
        /\ result.shown = entries(red_alerts, orange_alerts, yellow_alerts)

\* the earlier call was on two records and showed two red alerts, the later one
\* on one of them: the earlier dict now shows one red alert
C25_Witness ==
    /\ Returns /\ earlier.kind = "dict"
    /\ ~call.again
    /\ Len(df) = 1
    /\ Len(earlier.shown.red) = 2
    /\ Len(red_alerts) = 1
    /\ earlier.shown # result.shown
    /\ shows(earlier.dict, red_alerts, orange_alerts, yellow_alerts).red = red_alerts

-----------------------------------------------------------------------------
(* Properties of the two table-level rules, checked under SpecRatio *)

\* strictly more than 30% of the records
C12_Over(count, total) == 10 * count > 3 * total

\* ratio, in tenths of a percent, is count / total to one decimal place
C12_OneDecimal(ratio, count, total) ==
    /\ 2 * total * ratio - 2000 * count <= total
    /\ 2000 * count - 2 * total * ratio <= total

\* the alerts of that type are one alert of that level with the share to one
\* decimal when the share is over 30%, and none otherwise
C12_Summary(alerts, lvl, count, total) ==
    IF total > 0 /\ C12_Over(count, total)
    THEN /\ Len(alerts) = 1
         /\ alerts[1].level = lvl
         /\ C12_OneDecimal(alerts[1].ratio, count, total)
    ELSE alerts = <<>>

C12_Held == Len(red_alerts) + Len(orange_alerts) + Len(yellow_alerts)

\* C12: each table-level rule emits exactly one summary alert with the share as a
\* percentage to one decimal when its records are strictly more than 30% of a
\* non-empty table and none otherwise; rule 3 counts the placeholder name into
\* yellow, rule 4 the grade 'other' into orange; 4 of 10 gives "40.0%".
C12_RatioRules ==
    LET total == Len(df)
        unnamed == Cardinality({i \in 1..total : df[i].name = "unnamed"})
        other == Cardinality({i \in 1..total : df[i].grade = "other"})
    IN  /\ Returns =>
              /\ C12_Summary(OfType(yellow_alerts, "naming"), "yellow", unnamed, total)
              /\ C12_Summary(OfType(orange_alerts, "grading"), "orange", other, total)
              /\ OfType(red_alerts \o orange_alerts, "naming") = <<>>
              /\ OfType(red_alerts \o yellow_alerts, "grading") = <<>>
              /\ (total = 10 /\ unnamed = 4) => yellow_alerts[1].ratio = 400
        /\ call.op = "check_unnamed_ratio" =>
              IF total > 0 /\ C12_Over(unnamed, total)
              THEN /\ C12_Held = call.held + 1
                   /\ C12_Summary(<<yellow_alerts[Len(yellow_alerts)]>>, "yellow",
                                   unnamed, total)
                   /\ yellow_alerts[Len(yellow_alerts)].type = "naming"
              ELSE C12_Held = call.held
        /\ call.op = "check_grade_distribution" =>
              IF total > 0 /\ C12_Over(other, total)
              THEN /\ C12_Held = call.held + 1
                   /\ C12_Summary(<<orange_alerts[Len(orange_alerts)]>>, "orange",
                                   other, total)
                   /\ orange_alerts[Len(orange_alerts)].type = "grading"
              ELSE C12_Held = call.held

\* 4 placeholder names in 10 records: one yellow alert carrying 40.0
C12_Witness ==
    /\ Returns
    /\ Len(df) = 10
    /\ Cardinality({i \in 1..Len(df) : df[i].name = "unnamed"}) = 4
    /\ Len(yellow_alerts) = 1 /\ yellow_alerts[1].ratio = 400

\* 3 records of grade 'other' in 10, exactly 30%: no orange alert
C12_ReachThirty ==
    /\ call.op = "check_grade_distribution"
    /\ Len(df) = 10
    /\ Cardinality({i \in 1..Len(df) : df[i].grade = "other"}) = 3
    /\ orange_alerts = <<>>

\* a share that is not a whole number of tenths: 1 in 3 is carried as 33.3
C12_ReachRounded ==
    /\ Returns
    /\ Len(df) = 3
    /\ Cardinality({i \in 1..Len(df) : df[i].name = "unnamed"}) = 1
    /\ yellow_alerts[1].ratio = 333

-----------------------------------------------------------------------------
(* Properties of analyze_leads, checked under SpecAnalyze *)

\* C13: no record makes the scoring or an alert rule raise, whatever its fields:
\* a readable file is analyzed to the end, every record scored and checked.
C13_NoRecordRaises ==
    (csv.readable /\ pc # "analyze") =>
        /\ pc = "analyzed"
        /\ ~call.raised
        /\ Len(df) = Len(csv.rows)

\* the malformed fields that are resolved to a default: an unparseable
\* consultation date and last follow-up beside an absent count
C13_ReachDefaulted ==
    /\ pc = "analyzed"
    /\ \E i \in 1..Len(df) :
          /\ df[i].first_consult = BadStr /\ df[i].last_followup = BadStr
          /\ df[i].priority_score = 30 + 25

\* C17: in an analyze_leads run the unnamed-customer rule counts a record whose
\* name is null as a placeholder-name record: it sees null replaced by 未命名.
C17_NullNameCounted ==
    pc = "analyzed" =>
        LET total == Len(df)
            unnamed == Cardinality({i \in 1..total : df[i].name \in {"unnamed", "missing"}})
        IN  C12_Summary(OfType(yellow_alerts, "naming"), "yellow", unnamed, total)

\* the placeholder itself is counted in an analyze_leads run
C17_ReachPlaceholder ==
    /\ pc = "analyzed"
    /\ Len(df) = 2 /\ df[1].name = "unnamed" /\ df[2].name = "named"
    /\ Len(OfType(yellow_alerts, "naming")) = 1
    /\ yellow_alerts[1].ratio = 500

\* C18: in an analyze_leads run a record whose enrollment cell is non-empty and
\* does not parse as a date counts as not enrolled: with a last activity earlier
\* than now - 7 days it gets a zombie alert.
C18_UnparseableEnrollment ==
    pc = "analyzed" =>
        \A i \in 1..Len(df) :
            (/\ df[i].enroll_time.kind = "Str"
             /\ C16_LastUpdate(df[i]).kind = "Date"
             /\ C16_LastUpdate(df[i]).v < call.t_zombie - 7 * TicksPerDay)
            => C16_Has(yellow_alerts, zombie_alert(df[i], C16_LastUpdate(df[i])))

\* an empty enrollment cell with the same last activity does get the alert
C18_ReachEmptyEnrollment ==
    /\ pc = "analyzed"
    /\ Len(df) = 1 /\ df[1].enroll_time = NaN /\ df[1].last_followup = Date(0)
    /\ Len(OfType(yellow_alerts, "zombie")) = 1

\* C20: scoring a table and generating its alerts leave every original field of
\* every record as it was, keep the number and the order of the rows and leave
\* the three point tables as built; analyze_leads adds two columns and no more.
C20_TableUnchanged ==
    /\ points = PointTables
    /\ pc = "analyzed" =>
          /\ Len(df) = Len(csv.rows)
          /\ \A i \in 1..Len(df) :
                /\ DOMAIN df[i] = CsvColumns \cup {"priority_score", "priority_level"}
                /\ \A c \in CsvColumns : df[i][c] = csv.rows[i][c]

\* two different records, the first with an absent count, scored and alerted
C20_Witness ==
    /\ pc = "analyzed"
    /\ Len(df) = 2
    /\ df[1].followup_count = NaN /\ df[2].followup_count = Num(2)
    /\ df[1].priority_score = 30 + 25 /\ df[2].priority_level = "routine"
    /\ Len(red_alerts) = 2

-----------------------------------------------------------------------------
(* Properties of SalesAnalyzer, checked under SpecLoad *)

\* C14: when load_data has returned False the analyzer holds no table, and the
\* page rendered afterwards shows no analysis.
C14_FailedLoadHoldsNothing ==
    loaded = "false" =>
        /\ ~data.held
        /\ pc = "rendered" => view = "info"

\* a file that cannot be read does leave the analyzer without a table
C14_ReachUnreadable ==
    /\ loaded = "false" /\ ~csv.readable
    /\ pc = "rendered" /\ view = "info"

\* C15: preprocess_data on a table that lacks one of the seven expected columns
\* completes without raising and leaves a table that has that column and the
\* three derived fields.
C15_MissingColumnTolerated ==
    (/\ pc # "main" /\ csv # NoUpload /\ csv.readable
     /\ Cardinality(ExpectedColumns \ csv.columns) = 1) =>
        /\ loaded = "true"
        /\ ExpectedColumns \cup DerivedColumns \subseteq data.columns

\* on a table with every expected column the preprocessing does complete: null
\* name and course become the placeholders, unparseable cells become absent
C15_ReachComplete ==
    /\ loaded = "true"
    /\ Len(data.rows) = 1
    /\ csv.rows[1]["name"] = NaN /\ data.rows[1]["name"] = Text(1)
    /\ csv.rows[1]["course"] = NaN /\ data.rows[1]["course"] = Text(2)
    /\ csv.rows[1]["amount"] = Text(0) /\ data.rows[1]["amount"] = NaN
    /\ csv.rows[1]["enroll_time"] = Text(0) /\ data.rows[1]["enrolled"] = Bool(FALSE)
    /\ data.rows[1]["followup_days"] = Num(1)
    /\ data.rows[1]["department"] = Text(4)

====
